---- MODULE Spec2Model ----
(***************************************************************************)
(* Model of pyes/elasticsearch.py: the ElasticSearch client object, its    *)
(* connection pool, path builder, request dispatcher (_send_request) and   *)
(* the facade operations index / get / delete / delete_index /             *)
(* cluster_health, used by several concurrent callers of one client.       *)
(*                                                                         *)
(* Python strings that are inspected character by character (paths) are    *)
(* sequences of one-character strings; texts that are only built and       *)
(* compared (JSON texts, enumerated parameters) are TLA+ strings.          *)
(***************************************************************************)
EXTENDS Integers, Sequences, FiniteSets, TLC

\* ---- bounds of the model ----
MaxServers == 2          \* a client is configured with 1..MaxServers addresses
MaxPathComponents == 3   \* longest component list handed to _make_path directly

\* ---- program constants ----
DefaultHealthTimeout == 30   \* cluster_health(..., timeout=30)

\* the threads that use the one client concurrently
Callers == {"c1", "c2"}

VARIABLES
    servers,          \* self.servers
    timeout,          \* self.timeout
    connection_pool,  \* self.connection_pool: sequence of (server, HTTPConnectionPool)
    pc,               \* per caller: "idle", "urlopen" (blocked in conn[1].urlopen), "done"
    frame,            \* per caller: locals of the running call while it is in urlopen
    selections,       \* per caller: get_connection calls made by the current/last call
    transport_calls,  \* per caller: urlopen calls made by the current/last call
    response,         \* per caller: the HTTP response the call received (status, data)
    result,           \* per caller: what the call returned or raised
    path_components,  \* argument of a direct _make_path call
    made_path         \* its return value (<<>> before the call)

vars == <<servers, timeout, connection_pool, pc, frame, selections,
          transport_calls, response, result, path_components, made_path>>

\* ------------------------------------------------------------------------
\* Python values
\* ------------------------------------------------------------------------
\* A path component: a str, an int or None.
PyStr(s) == [k |-> "str", s |-> s, n |-> 0]
PyInt(n) == [k |-> "int", s |-> <<>>, n |-> n]
None   == [k |-> "none", s |-> <<>>, n |-> 0]

\* bool(component): empty string, 0 and None are falsy.
Truthy(c) == CASE c.k = "str" -> c.s # <<>>
               [] c.k = "int" -> c.n # 0
               [] OTHER       -> FALSE

RECURSIVE Digits(_)
Digits(n) == IF n < 10 THEN <<ToString(n)>>
             ELSE Digits(n \div 10) \o <<ToString(n % 10)>>

\* str(component)
str(c) == CASE c.k = "str" -> c.s
            [] c.k = "int" -> Digits(c.n)
            [] OTHER       -> <<"N", "o", "n", "e">>

\* sep.join(parts) on character sequences
RECURSIVE join(_, _)
join(sep, parts) ==
    IF parts = <<>> THEN <<>>
    ELSE IF Len(parts) = 1 THEN parts[1]
    ELSE parts[1] \o sep \o join(sep, Tail(parts))

\* s.startswith(prefix)
startswith(s, prefix) ==
    /\ Len(s) >= Len(prefix)
    /\ SubSeq(s, 1, Len(prefix)) = prefix

RECURSIVE Filter(_)
Filter(cs) == IF cs = <<>> THEN <<>>
              ELSE IF Truthy(Head(cs)) THEN <<str(Head(cs))>> \o Filter(Tail(cs))
              ELSE Filter(Tail(cs))

\* _make_path without the "if component" filter (mutant)
_make_path_unfiltered(components) ==
    LET all  == [i \in 1..Len(components) |-> str(components[i])]
        path == join(<<"/">>, all)
    IN  IF ~startswith(path, <<"/">>) THEN <<"/">> \o path ELSE path

\* ElasticSearch._make_path
_make_path(components) ==
    LET kept == Filter(components)
        path == join(<<"/">>, kept)
    IN  IF ~startswith(path, <<"/">>) THEN <<"/">> \o path ELSE path

\* ------------------------------------------------------------------------
\* Request bodies and the JSON codec
\* ------------------------------------------------------------------------
\* A body is a dict (sequence of items), a str (text) or None.
Dict(items) == [kind |-> "dict", items |-> items, s |-> ""]
Text(s)     == [kind |-> "str", items |-> <<>>, s |-> s]
NoBody      == [kind |-> "none", items |-> <<>>, s |-> ""]

Item(k, v)  == [k |-> k, v |-> v, ok |-> TRUE]
\* an item whose value json cannot encode (ESJsonEncoder.default hands it back)
Rogue(k)    == [k |-> k, v |-> "<object>", ok |-> FALSE]

BodyTruthy(b) == CASE b.kind = "dict" -> b.items # <<>>
                   [] b.kind = "str"  -> b.s # ""
                   [] OTHER           -> FALSE

Encodable(b) == \A i \in 1..Len(b.items) : b.items[i].ok

RECURSIVE DumpItems(_)
DumpItems(items) ==
    IF items = <<>> THEN ""
    ELSE LET one == "\"" \o Head(items).k \o "\": \"" \o Head(items).v \o "\""
         IN  IF Len(items) = 1 THEN one ELSE one \o ", " \o DumpItems(Tail(items))

\* json.dumps(body, cls=ESJsonEncoder) of an encodable body
json_dumps(b) == IF b.kind = "dict" THEN "{" \o DumpItems(b.items) \o "}"
                 ELSE "\"" \o b.s \o "\""

\* ElasticSearch._prep_request
_prep_request(body) == Text(json_dumps(body))

NoValue == [type |-> "none", items |-> <<>>]

\* The response payloads the stub server sends.
Payloads == {"{\"ok\": true}", "<html>"}
ValidJSON(data) == data \in {"{\"ok\": true}", "[]"}

\* json.loads(data) of a valid JSON text
json_loads(data) ==
    CASE data = "{\"ok\": true}" -> [type |-> "dict", items |-> << <<"ok", "true">> >>]
      [] data = "[]"             -> [type |-> "list", items |-> <<>>]

Statuses == {200, 404}

\* ------------------------------------------------------------------------
\* Outcomes of a call
\* ------------------------------------------------------------------------
NoResult        == [kind |-> "none", exc |-> "", msg |-> "", arg |-> "", value |-> NoValue]
Return(v)       == [kind |-> "return", exc |-> "", msg |-> "", arg |-> "", value |-> v]
Raise(e, m, a)  == [kind |-> "raise", exc |-> e, msg |-> m, arg |-> a, value |-> NoValue]

\* ElasticSearch._prep_response: json.loads raises ValueError on malformed JSON
_prep_response(data) ==
    IF ValidJSON(data) THEN Return(json_loads(data))
    ELSE Raise("ValueError", "No JSON object could be decoded", "")

NoResponse == [received |-> FALSE, status |-> 0, data |-> ""]

\* ------------------------------------------------------------------------
\* Construction
\* ------------------------------------------------------------------------
\* A timeout value: a number, or absent (None).
Seconds(n) == [given |-> TRUE, seconds |-> n]
NoTimeout  == [given |-> FALSE, seconds |-> 0]

Timeouts == {5, 30}

\* A server address after urlsplit and netloc.split(':').
Addresses == { [url |-> "http://a:9200", netloc |-> <<"a", "9200">>],
               [url |-> "http://b",      netloc |-> <<"b">>] }

\* urllib3.HTTPConnectionPool(host, port): no timeout argument is given, so the
\* pool keeps the library's default, which is None.
HTTPConnectionPool(host, port) == [host |-> host, port |-> port, timeout |-> NoTimeout]

PoolEntry(server) ==
    LET netloc == server.netloc
        host   == netloc[1]
        port   == IF Len(netloc) = 1 THEN "None" ELSE netloc[2]
    IN  [server |-> server.url, conn |-> HTTPConnectionPool(host, port)]

\* ElasticSearch._init_connections
_init_connections(srvs) == [i \in 1..Len(srvs) |-> PoolEntry(srvs[i])]

ServerLists == UNION { [1..k -> Addresses] : k \in 1..MaxServers }

NoFrame == [op |-> "none", id |-> None, force |-> FALSE, level |-> "", method |-> "", path |-> <<>>,
            url |-> <<>>, body |-> NoBody, conn |-> 0, timeout |-> NoTimeout]

\* ElasticSearch.__init__
Construct ==
    /\ timeout \in {Seconds(s) : s \in Timeouts}
    /\ servers \in ServerLists
    /\ connection_pool = _init_connections(servers)
    /\ pc = [t \in Callers |-> "idle"]
    /\ frame = [t \in Callers |-> NoFrame]
    /\ selections = [t \in Callers |-> 0]
    /\ transport_calls = [t \in Callers |-> 0]
    /\ response = [t \in Callers |-> NoResponse]
    /\ result = [t \in Callers |-> NoResult]

Init ==
    /\ Construct
    /\ path_components = <<>>
    /\ made_path = <<>>

\* ------------------------------------------------------------------------
\* Connection pool
\* ------------------------------------------------------------------------
\* random.randint(a, b): any integer N with a <= N <= b
randint(a, b) == a..b

\* connection_pool[i] for a 0-based index i: the entry, or IndexError
Subscript(i) ==
    IF i \in 0..(Len(connection_pool) - 1)
    THEN [raised |-> FALSE, index |-> i]
    ELSE [raised |-> TRUE, index |-> i]

\* ElasticSearch.get_connection: the set of outcomes one call can have
get_connection ==
    LET num == Len(connection_pool)
    IN  IF num = 1 THEN {Subscript(0)}
        ELSE {Subscript(r) : r \in randint(0, num)}

\* ------------------------------------------------------------------------
\* Request dispatcher
\* ------------------------------------------------------------------------
Begin(t) == pc[t] # "urlopen"

\* An exception leaves the call: the locals are gone, the caller holds the error.
Raises(t, error, nsel) ==
    /\ pc' = [pc EXCEPT ![t] = "done"]
    /\ frame' = [frame EXCEPT ![t] = NoFrame]
    /\ selections' = [selections EXCEPT ![t] = nsel]
    /\ transport_calls' = [transport_calls EXCEPT ![t] = 0]
    /\ response' = [response EXCEPT ![t] = NoResponse]
    /\ result' = [result EXCEPT ![t] = error]
    /\ UNCHANGED <<servers, timeout, connection_pool, path_components, made_path>>

RECURSIVE urlencode(_)
\* urllib.urlencode(querystring_args): k=v pairs joined by '&'
urlencode(args) ==
    IF args = <<>> THEN <<>>
    ELSE LET one == args[1][1] \o <<"=">> \o args[1][2]
         IN  IF Len(args) = 1 THEN one ELSE one \o <<"&">> \o urlencode(Tail(args))

\* ElasticSearch._send_request, up to the point where it blocks in urlopen.
\* call: the facade operation and its arguments (kept for the trace line).
_send_request(t, call, method, path, body, querystring_args) ==
    LET path1 == IF ~startswith(path, <<"/">>) THEN <<"/">> \o path ELSE path
        url   == IF querystring_args # <<>>
                 THEN path1 \o <<"?">> \o urlencode(querystring_args)
                 ELSE path1
    IN  IF BodyTruthy(body) /\ ~Encodable(body)
        THEN \* json.dumps raises before a connection is asked for
             Raises(t, Raise("ValueError", "Circular reference detected", ""), 0)
        ELSE LET body1 == IF BodyTruthy(body) THEN _prep_request(body) ELSE body
             IN  \E c \in get_connection :
                   IF c.raised
                   THEN Raises(t, Raise("IndexError", "list index out of range", ""), 1)
                   ELSE LET conn == connection_pool[c.index + 1]
                        IN  /\ pc' = [pc EXCEPT ![t] = "urlopen"]
                            /\ frame' = [frame EXCEPT ![t] =
                                   [op |-> call.op, id |-> call.id, force |-> call.force,
                                    level |-> call.level,
                                    method |-> method, path |-> path, url |-> url,
                                    body |-> body1, conn |-> c.index + 1,
                                    timeout |-> conn.conn.timeout]]
                            /\ selections' = [selections EXCEPT ![t] = 1]
                            /\ transport_calls' = [transport_calls EXCEPT ![t] = 1]
                            /\ response' = [response EXCEPT ![t] = NoResponse]
                            /\ result' = [result EXCEPT ![t] = NoResult]
                            /\ UNCHANGED <<servers, timeout, connection_pool,
                                           path_components, made_path>>

\* _send_request raising on a non-2xx status instead of ignoring it (mutant)
urlopen_returns_checked(t, status, data) ==
    /\ pc[t] = "urlopen"
    /\ pc' = [pc EXCEPT ![t] = "done"]
    /\ frame' = [frame EXCEPT ![t] = NoFrame]
    /\ response' = [response EXCEPT ![t] =
                       [received |-> TRUE, status |-> status, data |-> data]]
    /\ result' = [result EXCEPT ![t] =
                     IF status \in 200..299 THEN _prep_response(data)
                     ELSE Raise("HTTPError", "bad status", ToString(status))]
    /\ UNCHANGED <<servers, timeout, connection_pool, selections, transport_calls,
                   path_components, made_path>>

\* conn[1].urlopen returns a response; _send_request reads its status, decodes
\* response.data and returns.
urlopen_returns(t, status, data) ==
    /\ pc[t] = "urlopen"
    /\ pc' = [pc EXCEPT ![t] = "done"]
    /\ frame' = [frame EXCEPT ![t] = NoFrame]
    /\ response' = [response EXCEPT ![t] =
                       [received |-> TRUE, status |-> status, data |-> data]]
    /\ result' = [result EXCEPT ![t] = _prep_response(data)]
    /\ UNCHANGED <<servers, timeout, connection_pool, selections, transport_calls,
                   path_components, made_path>>

\* _send_request retrying a failed urlopen on a newly selected connection (mutant)
urlopen_raises_retry(t) ==
    /\ pc[t] = "urlopen"
    /\ selections[t] < 3
    /\ \E i \in 1..Len(connection_pool) :
          frame' = [frame EXCEPT ![t].conn = i,
                                 ![t].timeout = connection_pool[i].conn.timeout]
    /\ selections' = [selections EXCEPT ![t] = @ + 1]
    /\ transport_calls' = [transport_calls EXCEPT ![t] = @ + 1]
    /\ UNCHANGED <<servers, timeout, connection_pool, pc, response, result,
                   path_components, made_path>>

\* _send_request dropping the endpoint whose urlopen failed from the pool (mutant)
urlopen_raises_evict(t) ==
    /\ pc[t] = "urlopen"
    /\ pc' = [pc EXCEPT ![t] = "done"]
    /\ frame' = [frame EXCEPT ![t] = NoFrame]
    /\ result' = [result EXCEPT ![t] = Raise("TransportError", "urlopen failed", "")]
    /\ connection_pool' = [i \in 1..(Len(connection_pool) - 1) |->
                              IF i < frame[t].conn THEN connection_pool[i]
                              ELSE connection_pool[i + 1]]
    /\ UNCHANGED <<servers, timeout, selections, transport_calls, response,
                   path_components, made_path>>

\* conn[1].urlopen raises (connection refused, timeout, ...): nothing catches it.
urlopen_raises(t) ==
    /\ pc[t] = "urlopen"
    /\ pc' = [pc EXCEPT ![t] = "done"]
    /\ frame' = [frame EXCEPT ![t] = NoFrame]
    /\ result' = [result EXCEPT ![t] = Raise("TransportError", "urlopen failed", "")]
    /\ UNCHANGED <<servers, timeout, connection_pool, selections, transport_calls,
                   response, path_components, made_path>>

\* ------------------------------------------------------------------------
\* Facade operations
\* ------------------------------------------------------------------------
Call(op, id, force, level) == [op |-> op, id |-> id, force |-> force, level |-> level]

IDX      == <<"i", "d", "x">>
TYPE     == <<"t", "y", "p", "e">>
CLUSTER  == <<"_", "c", "l", "u", "s", "t", "e", "r">>
HEALTH   == <<"h", "e", "a", "l", "t", "h">>
OPTYPE   == <<"o", "p", "T", "y", "p", "e">>
CREATE   == <<"c", "r", "e", "a", "t", "e">>

\* ElasticSearch.index
index(t, doc, idx, doc_type, id, force_insert) ==
    /\ Begin(t)
    /\ LET querystring_args == IF force_insert THEN << <<OPTYPE, CREATE>> >> ELSE <<>>
           request_method   == IF id = None THEN "POST" ELSE "PUT"
           path             == _make_path(<<PyStr(idx), PyStr(doc_type), id>>)
       IN  _send_request(t, Call("index", id, force_insert, ""), request_method, path,
                         doc, querystring_args)

\* ElasticSearch.delete
delete(t, idx, doc_type, id) ==
    /\ Begin(t)
    /\ LET path == _make_path(<<PyStr(idx), PyStr(doc_type), id>>)
       IN  _send_request(t, Call("delete", id, FALSE, ""), "DELETE", path, Text(""), <<>>)

\* ElasticSearch.get
get(t, idx, doc_type, id) ==
    /\ Begin(t)
    /\ LET path == _make_path(<<PyStr(idx), PyStr(doc_type), id>>)
       IN  _send_request(t, Call("get", id, FALSE, ""), "GET", path, Text(""), <<>>)

\* ElasticSearch.delete_index: the index name goes to _send_request as it is
delete_index(t, idx) ==
    /\ Begin(t)
    /\ _send_request(t, Call("delete_index", None, FALSE, ""), "DELETE", idx, Text(""), <<>>)

\* wait_for_status: None or a string
NoStatus  == [given |-> FALSE, s |-> ""]
Status(s) == [given |-> TRUE, s |-> s]

\* cluster_health without the check of level (mutant)
cluster_health_unchecked_level(t, level, wait_for_status, wait_timeout) ==
    /\ Begin(t)
    /\ LET path    == _make_path(<<PyStr(CLUSTER), PyStr(HEALTH)>>)
           mapping == IF level # "cluster" THEN <<Item("level", level)>> ELSE <<>>
       IN  _send_request(t, Call("cluster_health", None, FALSE, level), "GET", path,
                         Dict(mapping), <<>>)

\* ElasticSearch.cluster_health
cluster_health(t, level, wait_for_status, wait_timeout) ==
    /\ Begin(t)
    /\ LET path     == _make_path(<<PyStr(CLUSTER), PyStr(HEALTH)>>)
           mapping1 == IF level # "cluster" THEN <<Item("level", level)>> ELSE <<>>
           mapping2 == IF wait_for_status.given /\ wait_for_status.s # ""
                       THEN mapping1 \o <<Item("wait_for_status", wait_for_status.s),
                                          Item("timeout", ToString(wait_timeout) \o "s")>>
                       ELSE mapping1
       IN  IF level # "cluster" /\ level \notin {"cluster", "indices", "shards"}
           THEN Raises(t, Raise("ValueError", "Invalid level: ", level), 0)
           ELSE IF /\ wait_for_status.given /\ wait_for_status.s # ""
                   /\ wait_for_status.s \notin {"cluster", "indices", "shards"}
           THEN Raises(t, Raise("ValueError", "Invalid wait_for_status: ",
                                wait_for_status.s), 0)
           ELSE _send_request(t, Call("cluster_health", None, FALSE, level), "GET", path,
                              Dict(mapping2), <<>>)

\* A direct call of _make_path on path_components (it reads no other state).
make_path ==
    /\ made_path = <<>>
    /\ made_path' = _make_path(path_components)
    /\ UNCHANGED <<servers, timeout, connection_pool, pc, frame, selections,
                   transport_calls, response, result, path_components>>

\* ------------------------------------------------------------------------
\* Inputs
\* ------------------------------------------------------------------------
Ids          == {None, PyInt(0), PyStr(<<"7">>)}
Docs         == {Dict(<<Item("title", "x")>>), Dict(<<Rogue("tags")>>)}
LevelInputs  == {"cluster", "shards", "bogus"}
StatusInputs == {NoStatus, Status("green"), Status("yellow"), Status("red"),
                 Status("shards")}
Components   == {PyStr(<<>>), PyStr(<<"a">>), PyStr(<<"b">>), PyStr(<<"/", "a">>),
                 PyStr(<<"a", "/">>), PyInt(0), PyInt(7), None}
ComponentLists == UNION { [1..n -> Components] : n \in 0..MaxPathComponents }

Next ==
    \/ \E t \in Callers, doc \in Docs, id \in Ids, force_insert \in BOOLEAN :
          index(t, doc, IDX, TYPE, id, force_insert)
    \/ \E t \in Callers, id \in Ids \ {None} : delete(t, IDX, TYPE, id)
    \/ \E t \in Callers, id \in Ids \ {None} : get(t, IDX, TYPE, id)
    \/ \E t \in Callers : delete_index(t, IDX)
    \/ \E t \in Callers, level \in LevelInputs, wait_for_status \in StatusInputs :
          cluster_health(t, level, wait_for_status, DefaultHealthTimeout)
    \/ \E t \in Callers, status \in Statuses, data \in Payloads :
          urlopen_returns(t, status, data)
    \/ \E t \in Callers : urlopen_raises(t)

Spec == Init /\ [][Next]_vars

\* The path builder on its own: every component list up to MaxPathComponents.
InitPath ==
    /\ Construct
    /\ path_components \in ComponentLists
    /\ made_path = <<>>

NextPath == make_path

SpecPath == InitPath /\ [][NextPath]_vars

\* ------------------------------------------------------------------------
\* Properties
\* ------------------------------------------------------------------------
ValidLevels == {"cluster", "indices", "shards"}

InvalidLevelError(r) ==
    r.kind = "raise" /\ r.exc = "ValueError" /\ r.msg = "Invalid level: "
InvalidStatusError(r) ==
    r.kind = "raise" /\ r.exc = "ValueError" /\ r.msg = "Invalid wait_for_status: "
\* raised by cluster_health itself, before it calls _send_request
ValidationError(r) == InvalidLevelError(r) \/ InvalidStatusError(r)
EncodeError(r) ==
    r.kind = "raise" /\ r.exc = "ValueError" /\ r.msg = "Circular reference detected"
TransportError(r) == r.kind = "raise" /\ r.exc = "TransportError"

\* the thread is in, or has left, a call of _send_request
InSendRequest(t) == pc[t] = "urlopen" \/ (pc[t] = "done" /\ ~ValidationError(result[t]))

OneLeadingSlash(p) == /\ Len(p) >= 1
                      /\ p[1] = "/"
                      /\ Len(p) >= 2 => p[2] # "/"
NoDoubleSlash(p) == \A i \in 1..(Len(p) - 1) : ~(p[i] = "/" /\ p[i + 1] = "/")

\* the segments between the '/' of a path that starts with '/' ("/" has none)
RECURSIVE Segments(_, _)
Segments(p, cur) ==
    IF p = <<>> THEN (IF cur = <<>> THEN <<>> ELSE <<cur>>)
    ELSE IF Head(p) = "/" THEN (IF cur = <<>> THEN <<>> ELSE <<cur>>) \o Segments(Tail(p), <<>>)
    ELSE Segments(Tail(p), cur \o <<Head(p)>>)

RECURSIVE KeptTexts(_)
\* the texts of the components that are not empty/falsy, in order
KeptTexts(cs) ==
    IF cs = <<>> THEN <<>>
    ELSE LET c == Head(cs)
             falsy == \/ c.k = "none"
                      \/ (c.k = "str" /\ Len(c.s) = 0)
                      \/ (c.k = "int" /\ c.n = 0)
         IN  IF falsy THEN KeptTexts(Tail(cs)) ELSE <<str(c)>> \o KeptTexts(Tail(cs))

SlashFree(cs) == \A i \in 1..Len(cs) : \A j \in 1..Len(str(cs[i])) : str(cs[i])[j] # "/"

IdPath(id) == <<"/">> \o IDX \o <<"/">> \o TYPE \o <<"/">> \o str(id)
TypePath   == <<"/">> \o IDX \o <<"/">> \o TYPE
CreateFlag == <<"?">> \o OPTYPE \o <<"=">> \o CREATE

\* the part of a url from its first '?' on
RECURSIVE QueryString(_)
QueryString(u) == IF u = <<>> THEN <<>>
                  ELSE IF Head(u) = "?" THEN u ELSE QueryString(Tail(u))

\* C1: with K >= 1 servers every get_connection call returns an entry of the
\* pool: no call made by _send_request ends in an error of the selection, and a
\* request in flight runs on an index within 1..K.
C1_SelectionAlwaysSucceeds ==
    \A t \in Callers :
        /\ ~(result[t].kind = "raise" /\ result[t].exc = "IndexError")
        /\ pc[t] = "urlopen" => frame[t].conn \in 1..Len(connection_pool)

\* C2: cluster_health with a level outside {cluster, indices, shards} never
\* reaches the network, and when it raises for the level, no connection was
\* selected, no urlopen was made and no response exists for that call.
C2_InvalidLevelRaisesBeforeNetwork ==
    \A t \in Callers :
        /\ ~(pc[t] = "urlopen" /\ frame[t].op = "cluster_health"
               /\ frame[t].level \notin ValidLevels)
        /\ InvalidLevelError(result[t]) =>
              /\ result[t].arg \notin ValidLevels
              /\ pc[t] = "done"
              /\ selections[t] = 0
              /\ transport_calls[t] = 0
              /\ ~response[t].received

C2_Witness ==
    \E t \in Callers : InvalidLevelError(result[t]) /\ result[t].arg = "bogus"

\* C3: cluster_health with a valid level and wait_for_status green, yellow or
\* red raises no validation error.
C3_StatusColoursAccepted ==
    \A t \in Callers :
        ~(InvalidStatusError(result[t]) /\ result[t].arg \in {"green", "yellow", "red"})

\* C4: index() without id sends POST to /<index>/<type>, with an id sends PUT
\* to /<index>/<type>/<id>, and the query string is the create-only flag
\* exactly when force_insert is true.
C4_IndexMethodAndPath ==
    \A t \in Callers :
        (pc[t] = "urlopen" /\ frame[t].op = "index") =>
            /\ transport_calls[t] = 1
            /\ frame[t].id = None =>
                  (frame[t].method = "POST" /\ frame[t].path = TypePath)
            /\ frame[t].id # None =>
                  (frame[t].method = "PUT" /\ frame[t].path = IdPath(frame[t].id))
            /\ (QueryString(frame[t].url) = CreateFlag) <=> frame[t].force

\* C5 (as stated): for every component list the result of _make_path holds the
\* non-falsy components in order, starts with exactly one '/' and has no
\* doubled '/'; ['a', '', 'b'] gives '/a/b' and [] gives '/'.
C5_PathNormalised ==
    made_path # <<>> =>
        /\ OneLeadingSlash(made_path)
        /\ NoDoubleSlash(made_path)
        /\ path_components = <<PyStr(<<"a">>), PyStr(<<>>), PyStr(<<"b">>)>>
              => made_path = <<"/", "a", "/", "b">>
        /\ path_components = <<>> => made_path = <<"/">>

\* C5 (amended): the same for every component list in which no component's
\* text contains '/'; the segments of the result are then exactly the texts of
\* the non-falsy components, in order.
C5_PathNormalisedSlashFree ==
    (made_path # <<>> /\ SlashFree(path_components)) =>
        /\ OneLeadingSlash(made_path)
        /\ NoDoubleSlash(made_path)
        /\ Segments(made_path, <<>>) = KeptTexts(path_components)
        /\ path_components = <<PyStr(<<"a">>), PyStr(<<>>), PyStr(<<"b">>)>>
              => made_path = <<"/", "a", "/", "b">>
        /\ path_components = <<>> => made_path = <<"/">>

C5_Witness ==
    /\ path_components = <<PyStr(<<"a">>), PyStr(<<>>), PyStr(<<"b">>)>>
    /\ made_path = <<"/", "a", "/", "b">>

\* C6: a numeric id 0 is kept as the segment '0': get, delete and index with
\* id=0 send their request to /<index>/<type>/0.
C6_ZeroIdKept ==
    \A t \in Callers :
        (pc[t] = "urlopen" /\ frame[t].op \in {"get", "delete", "index"}
           /\ frame[t].id = PyInt(0)) =>
            frame[t].path = <<"/">> \o IDX \o <<"/">> \o TYPE \o <<"/", "0">>

\* C7: whatever the HTTP status, a response whose payload is valid JSON makes
\* _send_request return the decoded payload without error.
C7_StatusIgnored ==
    \A t \in Callers :
        (response[t].received /\ response[t].data = "{\"ok\": true}") =>
            /\ pc[t] = "done"
            /\ result[t].kind = "return"
            /\ result[t].value = [type |-> "dict", items |-> << <<"ok", "true">> >>]

C7_Witness ==
    \E t \in Callers :
        /\ response[t].received
        /\ response[t].status = 404
        /\ response[t].data = "{\"ok\": true}"
        /\ result[t].kind = "return"

\* C8: every urlopen made by _send_request runs with the timeout given to the
\* constructor.
C8_TimeoutApplied ==
    \A t \in Callers : pc[t] = "urlopen" => frame[t].timeout = timeout

\* C9 (as stated): every call of _send_request makes exactly one connection
\* selection and at most one urlopen.
C9_ExactlyOneSelection ==
    \A t \in Callers :
        InSendRequest(t) => (selections[t] = 1 /\ transport_calls[t] <= 1)

\* C9 (amended): a call of _send_request makes at most one selection: exactly
\* one, unless the call raised before it asked for a connection (the body could
\* not be encoded), and then none; it makes at most one urlopen,
\* only after the selection and on the connection it returned, which stays the
\* same while the call is in urlopen; a failed urlopen ends the call with one
\* selection and one urlopen made.
C9_AtMostOneSelection ==
    /\ [](\A t \in Callers :
            /\ selections[t] <= 1
            /\ transport_calls[t] <= selections[t]
            /\ pc[t] = "urlopen" =>
                  /\ selections[t] = 1
                  /\ transport_calls[t] = 1
                  /\ frame[t].conn \in 1..Len(connection_pool)
            /\ InSendRequest(t) => (selections[t] = 0 <=> EncodeError(result[t]))
            /\ TransportError(result[t]) =>
                  (pc[t] = "done" /\ selections[t] = 1 /\ transport_calls[t] = 1))
    /\ [][\A t \in Callers :
            (pc[t] = "urlopen" /\ pc'[t] = "urlopen") => frame'[t] = frame[t]]_vars

C9_Witness ==
    \E t \in Callers :
        /\ TransportError(result[t])
        /\ selections[t] = 1
        /\ Len(connection_pool) > 1

\* C10: connection_pool always holds one entry per configured address, in
\* configuration order, and no step of any caller changes connection_pool or
\* servers.
C10_PoolFixed ==
    /\ [](/\ Len(connection_pool) = Len(servers)
          /\ \A i \in 1..Len(servers) :
                /\ connection_pool[i].server = servers[i].url
                /\ connection_pool[i].conn.host = servers[i].netloc[1])
    /\ [][connection_pool' = connection_pool /\ servers' = servers]_vars

C10_Witness ==
    /\ Len(servers) = 2
    /\ servers[1] # servers[2]
    /\ TransportError(result["c1"])
    /\ pc["c2"] = "urlopen"
====
